---- MODULE Spec2Model ----
(***************************************************************************)
(* ejs.Document (src/src/index/Document.js): a builder holding the         *)
(* identity fields index/type/id and the option map params, its accessors, *)
(* the two renderers genClientParams/genParamStr and the four dispatch     *)
(* operations doGet, doIndex, doUpdate, doDelete.                          *)
(*                                                                         *)
(* A JavaScript string is a sequence of one-character strings, so that     *)
(* concatenation, toLowerCase, join, encodeURIComponent and JSON.stringify *)
(* are computed character by character.  A JavaScript value is a record    *)
(* tagged by k.                                                            *)
(*                                                                         *)
(* index, type, id and params are the variables of the closure.  A method  *)
(* call takes the builder from pc = "ready" to pc = "returned" and leaves  *)
(* in lastCall the method and its argument, in ret what it returned or     *)
(* threw and in sent the requests it made on ejs.client; Continue is the   *)
(* caller going on to its next call.                                       *)
(***************************************************************************)
EXTENDS Integers, Sequences, FiniteSets, TLC

VARIABLES index, type, id, params, pc, lastCall, ret, sent

vars == <<index, type, id, params, pc, lastCall, ret, sent>>

\* ---------------------------------------------------------------- bounds
\* most keys the option map holds
MaxKeys == 2
\* longest sequence a single-string call of fields may extend
MaxFields == 2

\* ---------------------------------------------------------------- values
Undef == [k |-> "undefined"]
Null == [k |-> "null"]
Str(s) == [k |-> "string", v |-> s]
Num(n) == [k |-> "number", v |-> n]
Bool(b) == [k |-> "boolean", v |-> b]
Arr(a) == [k |-> "array", v |-> a]
Obj(o) == [k |-> "object", v |-> o]

\* x == null
IsNull(x) == x.k \in {"undefined", "null"}

isString(x) == x.k = "string"

isArray(x) == x.k = "array"

isObject(x) == x.k = "object"

has(obj, p) == p \in DOMAIN obj

\* return values of a call: the builder itself, a thrown error, or whatever
\* the client returned
This == [k |-> "this"]
Response == [k |-> "response"]
Err(m) == [k |-> "Error", msg |-> m]
TypeErr(m) == [k |-> "TypeError", msg |-> m]

\* ---------------------------------------------------------------- option keys
K_routing == <<"r", "o", "u", "t", "i", "n", "g">>
K_parent == <<"p", "a", "r", "e", "n", "t">>
K_timestamp == <<"t", "i", "m", "e", "s", "t", "a", "m", "p">>
K_ttl == <<"t", "t", "l">>
K_timeout == <<"t", "i", "m", "e", "o", "u", "t">>
K_refresh == <<"r", "e", "f", "r", "e", "s", "h">>
K_version == <<"v", "e", "r", "s", "i", "o", "n">>
K_version_type == <<"v", "e", "r", "s", "i", "o", "n", "_", "t", "y", "p", "e">>
K_percolate == <<"p", "e", "r", "c", "o", "l", "a", "t", "e">>
K_op_type == <<"o", "p", "_", "t", "y", "p", "e">>
K_replication == <<"r", "e", "p", "l", "i", "c", "a", "t", "i", "o", "n">>
K_consistency == <<"c", "o", "n", "s", "i", "s", "t", "e", "n", "c", "y">>
K_preference == <<"p", "r", "e", "f", "e", "r", "e", "n", "c", "e">>
K_realtime == <<"r", "e", "a", "l", "t", "i", "m", "e">>
K_fields == <<"f", "i", "e", "l", "d", "s">>
K_script == <<"s", "c", "r", "i", "p", "t">>
K_lang == <<"l", "a", "n", "g">>
K_params == <<"p", "a", "r", "a", "m", "s">>
K_retry_on_conflict == <<"r", "e", "t", "r", "y", "_", "o", "n", "_", "c", "o", "n", "f", "l", "i", "c", "t">>
K_upsert == <<"u", "p", "s", "e", "r", "t">>
K_source == <<"s", "o", "u", "r", "c", "e">>
K_doc == <<"d", "o", "c">>

\* params.key, undefined when the key is absent
Prop(obj, key) == IF key \in DOMAIN obj THEN obj[key] ELSE Undef

\* params.key = val
Put(obj, key, val) == (key :> val) @@ obj

\* the empty option map
EmptyMap == [key \in {} |-> Undef]

\* ---------------------------------------------------------------- strings
Digit == <<"0", "1", "2", "3", "4", "5", "6", "7", "8", "9">>

RECURSIVE NumStr(_)
NumStr(n) == IF n < 10 THEN <<Digit[n + 1]>> ELSE NumStr(n \div 10) \o <<Digit[(n % 10) + 1]>>

Upper == <<"A", "B", "C", "D", "E", "F", "G", "H", "I", "J", "K", "L", "M", "N", "O", "P", "Q", "R", "S", "T", "U", "V", "W", "X", "Y", "Z">>

Lower == <<"a", "b", "c", "d", "e", "f", "g", "h", "i", "j", "k", "l", "m", "n", "o", "p", "q", "r", "s", "t", "u", "v", "w", "x", "y", "z">>

LowerChar(c) == IF \E i \in 1..26 : Upper[i] = c THEN Lower[CHOOSE i \in 1..26 : Upper[i] = c] ELSE c

\* String.prototype.toLowerCase
toLowerCase(s) == [i \in 1..Len(s) |-> LowerChar(s[i])]

\* ToString of a primitive
ToStr(x) == CASE x.k = "string" -> x.v
              [] x.k = "number" -> NumStr(x.v)
              [] x.k = "boolean" -> IF x.v THEN <<"t", "r", "u", "e">> ELSE <<"f", "a", "l", "s", "e">>
              [] x.k = "undefined" -> <<"u", "n", "d", "e", "f", "i", "n", "e", "d">>
              [] x.k = "null" -> <<"n", "u", "l", "l">>

\* Array.prototype.join with the separator sep
RECURSIVE JoinWith(_, _)
JoinWith(a, sep) == IF Len(a) = 0 THEN <<>>
                    ELSE IF Len(a) = 1 THEN a[1]
                    ELSE a[1] \o sep \o JoinWith(Tail(a), sep)

\* paramVal.join(): the elements' strings separated by commas
join(a) == JoinWith([i \in 1..Len(a) |-> ToStr(a[i])], <<",">>)

\* characters encodeURIComponent leaves alone
Unreserved == {Upper[i] : i \in 1..26} \cup {Lower[i] : i \in 1..26} \cup {Digit[i] : i \in 1..10} \cup {"-", "_", ".", "!", "~", "*", "'", "(", ")"}

Hex == <<"0", "1", "2", "3", "4", "5", "6", "7", "8", "9", "A", "B", "C", "D", "E", "F">>

\* ASCII codes of the reserved characters the model's strings use
Code(c) == CASE c = " " -> 32 [] c = "\"" -> 34 [] c = "%" -> 37 [] c = "&" -> 38
             [] c = "+" -> 43 [] c = "," -> 44 [] c = "/" -> 47 [] c = ":" -> 58
             [] c = "=" -> 61 [] c = "?" -> 63 [] c = "[" -> 91 [] c = "\\" -> 92
             [] c = "]" -> 93 [] c = "{" -> 123 [] c = "}" -> 125

EncodeChar(c) == IF c \in Unreserved THEN <<c>> ELSE <<"%", Hex[(Code(c) \div 16) + 1], Hex[(Code(c) % 16) + 1]>>

RECURSIVE encodeURIComponent(_)
encodeURIComponent(s) == IF Len(s) = 0 THEN <<>> ELSE EncodeChar(Head(s)) \o encodeURIComponent(Tail(s))

QuoteChar(c) == IF c = "\"" \/ c = "\\" THEN <<"\\", c>> ELSE <<c>>

RECURSIVE Quote(_)
Quote(s) == IF Len(s) = 0 THEN <<>> ELSE QuoteChar(Head(s)) \o Quote(Tail(s))

\* JSON.stringify; an object is a sequence of <<key, value>> in insertion order
RECURSIVE stringify(_)
RECURSIVE StringifyAll(_, _)
stringify(x) == CASE x.k = "string" -> <<"\"">> \o Quote(x.v) \o <<"\"">>
                  [] x.k = "number" -> NumStr(x.v)
                  [] x.k = "boolean" -> ToStr(x)
                  [] x.k = "null" -> <<"n", "u", "l", "l">>
                  [] x.k = "array" -> <<"[">> \o JoinWith(StringifyAll(x.v, FALSE), <<",">>) \o <<"]">>
                  [] x.k = "object" -> <<"{">> \o JoinWith(StringifyAll(x.v, TRUE), <<",">>) \o <<"}">>
StringifyAll(a, members) == [i \in 1..Len(a) |->
                               IF members
                               THEN <<"\"">> \o Quote(a[i][1]) \o <<"\"", ":">> \o stringify(a[i][2])
                               ELSE stringify(a[i])]

\* ---------------------------------------------------------------- renderers
\* keys that go in the request body, never in the query string
BodyOnly == {K_upsert, K_source, K_script, K_lang, K_params}

\* genClientParams not skipping script
genClientParams_ScriptKept == [param \in {p \in DOMAIN params : has(params, p) /\ p \notin {K_upsert, K_source, K_lang, K_params}} |->
                                 IF isArray(params[param]) THEN Str(join(params[param].v)) ELSE params[param]]

genClientParams == [param \in {p \in DOMAIN params : has(params, p) /\ p \notin BodyOnly} |->
                      IF isArray(params[param]) THEN Str(join(params[param].v)) ELSE params[param]]

\* the orders in which for-in may enumerate the keys of S (ES5 12.6.4 leaves
\* the order to the implementation)
Orders(S) == {o \in [1..Cardinality(S) -> S] : \A i, j \in 1..Cardinality(S) : i # j => o[i] # o[j]}

\* genParamStr when for-in enumerates clientParams in the order given
genParamStr(order) == LET clientParams == genClientParams
                          parts == [i \in 1..Len(order) |->
                                      order[i] \o <<"=">> \o encodeURIComponent(ToStr(clientParams[order[i]]))]
                      IN  JoinWith(parts, <<"&">>)

\* ---------------------------------------------------------------- arguments
\* a call without argument
ReadArgs == {Undef}

IndexArgs == ReadArgs \cup {Null, Str(<<"i">>)}
TypeArgs == ReadArgs \cup {Null, Str(<<"t">>)}
IdArgs == ReadArgs \cup {Null, Str(<<"5">>)}
RoutingArgs == ReadArgs \cup {Null, Str(<<"r">>)}
ParentArgs == ReadArgs \cup {Str(<<"p">>)}
TimestampArgs == ReadArgs \cup {Str(<<"1", ":", "2">>)}
TtlArgs == ReadArgs \cup {Str(<<"1", "d">>)}
TimeoutArgs == ReadArgs \cup {Str(<<"5", "m">>)}
RefreshArgs == ReadArgs \cup {Bool(FALSE)}
VersionArgs == ReadArgs \cup {Num(12)}
PercolateArgs == ReadArgs \cup {Str(<<"*">>)}
PreferenceArgs == ReadArgs \cup {Str(<<"_", "l", "o", "c", "a", "l">>)}
RealtimeArgs == ReadArgs \cup {Bool(TRUE)}
ScriptArgs == ReadArgs \cup {Str(<<"c", "t", "x", ".", "_", "s", "o", "u", "r", "c", "e", ".", "f", "+", "=", "1">>)}
LangArgs == ReadArgs \cup {Str(<<"j", "s">>)}
RetryArgs == ReadArgs \cup {Num(0)}
\* values no enumerated option accepts
BadEnumArgs == {Str(<<"b", "o", "g", "u", "s">>), Num(5)}
VersionTypeArgs == ReadArgs \cup BadEnumArgs \cup {Str(<<"i", "n", "t", "e", "r", "n", "a", "l">>), Str(<<"E", "X", "T", "E", "R", "N", "A", "L">>)}
OpTypeArgs == ReadArgs \cup BadEnumArgs \cup {Str(<<"C", "r", "e", "a", "t", "e">>)}
ReplicationArgs == ReadArgs \cup BadEnumArgs \cup {Str(<<"a", "s", "y", "n", "c">>)}
ConsistencyArgs == ReadArgs \cup BadEnumArgs \cup {Str(<<"A", "L", "L">>)}
FieldsArgs == ReadArgs \cup {Null, Str(<<"a">>), Str(<<"b">>), Arr(<<Str(<<"x">>), Str(<<"y">>)>>), Num(5)}
ParamsArgs == ReadArgs \cup {Obj(<<<<<<"n">>, Num(1)>>>>), Str(<<"x">>)}
UpsertArgs == ReadArgs \cup {Obj(<<<<<<"f">>, Num(0)>>>>), Str(<<"x">>)}
SourceArgs == ReadArgs \cup {Obj(<<<<<<"f">>, Num(1)>>>>), Str(<<"x">>)}

\* ---------------------------------------------------------------- construction
\* ejs.Document(index, type, id): any of the three may be left out
Init == /\ index \in {Undef, Str(<<"i">>)}
        /\ type \in {Undef, Str(<<"t">>)}
        /\ id \in {Undef, Str(<<"5">>)}
        /\ params = EmptyMap
        /\ pc = "ready"
        /\ lastCall = [op |-> "Document", arg |-> Undef]
        /\ ret = This
        /\ sent = <<>>

\* the option map p has room for key
CanAdd(p, key) == key \in DOMAIN p \/ Cardinality(DOMAIN p) < MaxKeys

\* a method of the builder is called with arg: it leaves the option map np
\* and returns or throws r, and the client has been sent nothing
Called(op, arg, np, r) ==
    /\ pc = "ready"
    /\ pc' = "returned"
    /\ params' = np
    /\ ret' = r
    /\ lastCall' = [op |-> op, arg |-> arg]
    /\ sent' = <<>>
    /\ UNCHANGED <<index, type, id>>

\* the caller has the result and goes on to its next call
Continue ==
    /\ pc = "returned"
    /\ pc' = "ready"
    /\ lastCall' = [op |-> "Document", arg |-> Undef]
    /\ ret' = This
    /\ sent' = <<>>
    /\ UNCHANGED <<index, type, id, params>>

\* ---------------------------------------------------------------- accessors
\* Each accessor is the function from the option map p and the argument to
\* the option map it leaves and the value it returns or throws; the action
\* of the same name with the suffix Call applies it to the builder.
index_(idx) ==
    /\ pc = "ready"
    /\ pc' = "returned"
    /\ IF IsNull(idx)
       THEN /\ ret' = index
            /\ UNCHANGED index
       ELSE /\ index' = idx
            /\ ret' = This
    /\ lastCall' = [op |-> "index", arg |-> idx]
    /\ sent' = <<>>
    /\ UNCHANGED <<type, id, params>>

type_(t) ==
    /\ pc = "ready"
    /\ pc' = "returned"
    /\ IF IsNull(t)
       THEN /\ ret' = type
            /\ UNCHANGED type
       ELSE /\ type' = t
            /\ ret' = This
    /\ lastCall' = [op |-> "type", arg |-> t]
    /\ sent' = <<>>
    /\ UNCHANGED <<index, id, params>>

\* id taking null for a value to store
id_NullStored(i) ==
    /\ pc = "ready"
    /\ pc' = "returned"
    /\ IF i = Undef
       THEN /\ ret' = id
            /\ UNCHANGED id
       ELSE /\ id' = i
            /\ ret' = This
    /\ lastCall' = [op |-> "id", arg |-> i]
    /\ sent' = <<>>
    /\ UNCHANGED <<index, type, params>>

id_(i) ==
    /\ pc = "ready"
    /\ pc' = "returned"
    /\ IF IsNull(i)
       THEN /\ ret' = id
            /\ UNCHANGED id
       ELSE /\ id' = i
            /\ ret' = This
    /\ lastCall' = [op |-> "id", arg |-> i]
    /\ sent' = <<>>
    /\ UNCHANGED <<index, type, params>>

routing(p, route) ==
    IF IsNull(route)
    THEN [params |-> p, ret |-> Prop(p, K_routing)]
    ELSE [params |-> Put(p, K_routing, route), ret |-> This]

routingCall(route) ==
    /\ IsNull(route) \/ CanAdd(params, K_routing)
    /\ Called("routing", route, routing(params, route).params, routing(params, route).ret)

parent(p, parent_) ==
    IF IsNull(parent_)
    THEN [params |-> p, ret |-> Prop(p, K_parent)]
    ELSE [params |-> Put(p, K_parent, parent_), ret |-> This]

parentCall(parent_) ==
    /\ IsNull(parent_) \/ CanAdd(params, K_parent)
    /\ Called("parent", parent_, parent(params, parent_).params, parent(params, parent_).ret)

timestamp(p, ts) ==
    IF IsNull(ts)
    THEN [params |-> p, ret |-> Prop(p, K_timestamp)]
    ELSE [params |-> Put(p, K_timestamp, ts), ret |-> This]

timestampCall(ts) ==
    /\ IsNull(ts) \/ CanAdd(params, K_timestamp)
    /\ Called("timestamp", ts, timestamp(params, ts).params, timestamp(params, ts).ret)

ttl(p, length) ==
    IF IsNull(length)
    THEN [params |-> p, ret |-> Prop(p, K_ttl)]
    ELSE [params |-> Put(p, K_ttl, length), ret |-> This]

ttlCall(length) ==
    /\ IsNull(length) \/ CanAdd(params, K_ttl)
    /\ Called("ttl", length, ttl(params, length).params, ttl(params, length).ret)

\* timeout storing its value as ttl
timeout_AsTtl(p, length) ==
    IF IsNull(length)
    THEN [params |-> p, ret |-> Prop(p, K_timeout)]
    ELSE [params |-> Put(p, K_ttl, length), ret |-> This]

timeout(p, length) ==
    IF IsNull(length)
    THEN [params |-> p, ret |-> Prop(p, K_timeout)]
    ELSE [params |-> Put(p, K_timeout, length), ret |-> This]

timeoutCall(length) ==
    /\ IsNull(length) \/ CanAdd(params, K_timeout)
    /\ Called("timeout", length, timeout(params, length).params, timeout(params, length).ret)

refresh(p, trueFalse) ==
    IF IsNull(trueFalse)
    THEN [params |-> p, ret |-> Prop(p, K_refresh)]
    ELSE [params |-> Put(p, K_refresh, trueFalse), ret |-> This]

refreshCall(trueFalse) ==
    /\ IsNull(trueFalse) \/ CanAdd(params, K_refresh)
    /\ Called("refresh", trueFalse, refresh(params, trueFalse).params, refresh(params, trueFalse).ret)

version(p, version_) ==
    IF IsNull(version_)
    THEN [params |-> p, ret |-> Prop(p, K_version)]
    ELSE [params |-> Put(p, K_version, version_), ret |-> This]

versionCall(version_) ==
    /\ IsNull(version_) \/ CanAdd(params, K_version)
    /\ Called("version", version_, version(params, version_).params, version(params, version_).ret)

versionType(p, vt) ==
    IF IsNull(vt)
    THEN [params |-> p, ret |-> Prop(p, K_version_type)]
    ELSE IF ~isString(vt)
    THEN [params |-> p, ret |-> TypeErr("toLowerCase is not a function")]
    ELSE LET l == toLowerCase(vt.v)
         IN  IF l = <<"i", "n", "t", "e", "r", "n", "a", "l">> \/ l = <<"e", "x", "t", "e", "r", "n", "a", "l">>
             THEN [params |-> Put(p, K_version_type, Str(l)), ret |-> This]
             ELSE [params |-> p, ret |-> This]

versionTypeCall(vt) ==
    /\ IsNull(vt) \/ CanAdd(params, K_version_type)
    /\ Called("versionType", vt, versionType(params, vt).params, versionType(params, vt).ret)

percolate(p, qry) ==
    IF IsNull(qry)
    THEN [params |-> p, ret |-> Prop(p, K_percolate)]
    ELSE [params |-> Put(p, K_percolate, qry), ret |-> This]

percolateCall(qry) ==
    /\ IsNull(qry) \/ CanAdd(params, K_percolate)
    /\ Called("percolate", qry, percolate(params, qry).params, percolate(params, qry).ret)

opType(p, op) ==
    IF IsNull(op)
    THEN [params |-> p, ret |-> Prop(p, K_op_type)]
    ELSE IF ~isString(op)
    THEN [params |-> p, ret |-> TypeErr("toLowerCase is not a function")]
    ELSE LET l == toLowerCase(op.v)
         IN  IF l = <<"i", "n", "d", "e", "x">> \/ l = <<"c", "r", "e", "a", "t", "e">>
             THEN [params |-> Put(p, K_op_type, Str(l)), ret |-> This]
             ELSE [params |-> p, ret |-> This]

opTypeCall(op) ==
    /\ IsNull(op) \/ CanAdd(params, K_op_type)
    /\ Called("opType", op, opType(params, op).params, opType(params, op).ret)

replication(p, r) ==
    IF IsNull(r)
    THEN [params |-> p, ret |-> Prop(p, K_replication)]
    ELSE IF ~isString(r)
    THEN [params |-> p, ret |-> TypeErr("toLowerCase is not a function")]
    ELSE LET l == toLowerCase(r.v)
         IN  IF l = <<"a", "s", "y", "n", "c">> \/ l = <<"s", "y", "n", "c">> \/ l = <<"d", "e", "f", "a", "u", "l", "t">>
             THEN [params |-> Put(p, K_replication, Str(l)), ret |-> This]
             ELSE [params |-> p, ret |-> This]

replicationCall(r) ==
    /\ IsNull(r) \/ CanAdd(params, K_replication)
    /\ Called("replication", r, replication(params, r).params, replication(params, r).ret)

\* consistency storing whatever string it is given
consistency_StoreAny(p, c) ==
    IF IsNull(c)
    THEN [params |-> p, ret |-> Prop(p, K_consistency)]
    ELSE IF ~isString(c)
    THEN [params |-> p, ret |-> TypeErr("toLowerCase is not a function")]
    ELSE [params |-> Put(p, K_consistency, Str(toLowerCase(c.v))), ret |-> This]

consistency(p, c) ==
    IF IsNull(c)
    THEN [params |-> p, ret |-> Prop(p, K_consistency)]
    ELSE IF ~isString(c)
    THEN [params |-> p, ret |-> TypeErr("toLowerCase is not a function")]
    ELSE LET l == toLowerCase(c.v)
         IN  IF l = <<"d", "e", "f", "a", "u", "l", "t">> \/ l = <<"o", "n", "e">> \/ l = <<"q", "u", "o", "r", "u", "m">> \/ l = <<"a", "l", "l">>
             THEN [params |-> Put(p, K_consistency, Str(l)), ret |-> This]
             ELSE [params |-> p, ret |-> This]

consistencyCall(c) ==
    /\ IsNull(c) \/ CanAdd(params, K_consistency)
    /\ Called("consistency", c, consistency(params, c).params, consistency(params, c).ret)

preference(p, pref) ==
    IF IsNull(pref)
    THEN [params |-> p, ret |-> Prop(p, K_preference)]
    ELSE [params |-> Put(p, K_preference, pref), ret |-> This]

preferenceCall(pref) ==
    /\ IsNull(pref) \/ CanAdd(params, K_preference)
    /\ Called("preference", pref, preference(params, pref).params, preference(params, pref).ret)

realtime(p, trueFalse) ==
    IF IsNull(trueFalse)
    THEN [params |-> p, ret |-> Prop(p, K_realtime)]
    ELSE [params |-> Put(p, K_realtime, trueFalse), ret |-> This]

realtimeCall(trueFalse) ==
    /\ IsNull(trueFalse) \/ CanAdd(params, K_realtime)
    /\ Called("realtime", trueFalse, realtime(params, trueFalse).params, realtime(params, trueFalse).ret)

\* fields replacing the sequence by the single string it is given
fields_Replace(p, fields_) ==
    LET init == IF IsNull(Prop(p, K_fields)) THEN Put(p, K_fields, Arr(<<>>)) ELSE p
    IN  IF IsNull(fields_)
        THEN [params |-> init, ret |-> init[K_fields]]
        ELSE IF isString(fields_)
        THEN [params |-> Put(init, K_fields, Arr(<<fields_>>)), ret |-> This]
        ELSE IF isArray(fields_)
        THEN [params |-> Put(init, K_fields, fields_), ret |-> This]
        ELSE [params |-> init, ret |-> TypeErr("Argument must be string or array")]

fields(p, fields_) ==
    LET init == IF IsNull(Prop(p, K_fields)) THEN Put(p, K_fields, Arr(<<>>)) ELSE p
    IN  IF IsNull(fields_)
        THEN [params |-> init, ret |-> init[K_fields]]
        ELSE IF isString(fields_)
        THEN [params |-> Put(init, K_fields, Arr(Append(init[K_fields].v, fields_))), ret |-> This]
        ELSE IF isArray(fields_)
        THEN [params |-> Put(init, K_fields, fields_), ret |-> This]
        ELSE [params |-> init, ret |-> TypeErr("Argument must be string or array")]

fieldsCall(fields_) ==
    /\ CanAdd(params, K_fields)
    /\ (isString(fields_) /\ K_fields \in DOMAIN params) => Len(params[K_fields].v) < MaxFields
    /\ Called("fields", fields_, fields(params, fields_).params, fields(params, fields_).ret)

script(p, script_) ==
    IF IsNull(script_)
    THEN [params |-> p, ret |-> Prop(p, K_script)]
    ELSE [params |-> Put(p, K_script, script_), ret |-> This]

scriptCall(script_) ==
    /\ IsNull(script_) \/ CanAdd(params, K_script)
    /\ Called("script", script_, script(params, script_).params, script(params, script_).ret)

lang(p, lang_) ==
    IF IsNull(lang_)
    THEN [params |-> p, ret |-> Prop(p, K_lang)]
    ELSE [params |-> Put(p, K_lang, lang_), ret |-> This]

langCall(lang_) ==
    /\ IsNull(lang_) \/ CanAdd(params, K_lang)
    /\ Called("lang", lang_, lang(params, lang_).params, lang(params, lang_).ret)

params_(p, prm) ==
    IF IsNull(prm)
    THEN [params |-> p, ret |-> Prop(p, K_params)]
    ELSE IF ~isObject(prm)
    THEN [params |-> p, ret |-> TypeErr("Argument must be an object")]
    ELSE [params |-> Put(p, K_params, prm), ret |-> This]

params_Call(prm) ==
    /\ IsNull(prm) \/ CanAdd(params, K_params)
    /\ Called("params", prm, params_(params, prm).params, params_(params, prm).ret)

retryOnConflict(p, num) ==
    IF IsNull(num)
    THEN [params |-> p, ret |-> Prop(p, K_retry_on_conflict)]
    ELSE [params |-> Put(p, K_retry_on_conflict, num), ret |-> This]

retryOnConflictCall(num) ==
    /\ IsNull(num) \/ CanAdd(params, K_retry_on_conflict)
    /\ Called("retryOnConflict", num, retryOnConflict(params, num).params, retryOnConflict(params, num).ret)

upsert(p, doc) ==
    IF IsNull(doc)
    THEN [params |-> p, ret |-> Prop(p, K_upsert)]
    ELSE IF ~isObject(doc)
    THEN [params |-> p, ret |-> TypeErr("Argument must be an object")]
    ELSE [params |-> Put(p, K_upsert, doc), ret |-> This]

upsertCall(doc) ==
    /\ IsNull(doc) \/ CanAdd(params, K_upsert)
    /\ Called("upsert", doc, upsert(params, doc).params, upsert(params, doc).ret)

source(p, doc) ==
    IF IsNull(doc)
    THEN [params |-> p, ret |-> Prop(p, K_source)]
    ELSE IF ~isObject(doc)
    THEN [params |-> p, ret |-> TypeErr("Argument must be an object")]
    ELSE [params |-> Put(p, K_source, doc), ret |-> This]

sourceCall(doc) ==
    /\ IsNull(doc) \/ CanAdd(params, K_source)
    /\ Called("source", doc, source(params, doc).params, source(params, doc).ret)

\* ---------------------------------------------------------------- dispatch
\* Each operation reads ejs.client, which belongs to the caller: client tells
\* whether it is set when the operation is called.
\* doGet handing the option map itself to the client
doGet_RawParams(client) ==
    /\ pc = "ready"
    /\ pc' = "returned"
    /\ IF ~client
       THEN /\ ret' = Err("No Client Set")
            /\ sent' = <<>>
       ELSE IF IsNull(index) \/ IsNull(type) \/ IsNull(id)
       THEN /\ ret' = Err("Index, Type, and ID must be set")
            /\ sent' = <<>>
       ELSE LET url == <<"/">> \o ToStr(index) \o <<"/">> \o ToStr(type) \o <<"/">> \o ToStr(id)
            IN  /\ sent' = <<[method |-> "get", url |-> url, data |-> [k |-> "map", v |-> params]]>>
                /\ ret' = Response
    /\ lastCall' = [op |-> "doGet", arg |-> Undef, client |-> client]
    /\ UNCHANGED <<index, type, id, params>>

doGet(client) ==
    /\ pc = "ready"
    /\ pc' = "returned"
    /\ IF ~client
       THEN /\ ret' = Err("No Client Set")
            /\ sent' = <<>>
       ELSE IF IsNull(index) \/ IsNull(type) \/ IsNull(id)
       THEN /\ ret' = Err("Index, Type, and ID must be set")
            /\ sent' = <<>>
       ELSE LET url == <<"/">> \o ToStr(index) \o <<"/">> \o ToStr(type) \o <<"/">> \o ToStr(id)
            IN  /\ sent' = <<[method |-> "get", url |-> url, data |-> [k |-> "map", v |-> genClientParams]]>>
                /\ ret' = Response
    /\ lastCall' = [op |-> "doGet", arg |-> Undef, client |-> client]
    /\ UNCHANGED <<index, type, id, params>>

\* doIndex posting whether or not id is set
doIndex_AlwaysPost(client) ==
    /\ pc = "ready"
    /\ pc' = "returned"
    /\ IF ~client
       THEN /\ ret' = Err("No Client Set")
            /\ sent' = <<>>
       ELSE IF IsNull(index) \/ IsNull(type)
       THEN /\ ret' = Err("Index and Type must be set")
            /\ sent' = <<>>
       ELSE IF IsNull(Prop(params, K_source))
       THEN /\ ret' = Err("No source document found")
            /\ sent' = <<>>
       ELSE \E order \in Orders(DOMAIN genClientParams) :
              LET url0 == <<"/">> \o ToStr(index) \o <<"/">> \o ToStr(type)
                  data == stringify(params[K_source])
                  paramStr == genParamStr(order)
                  url1 == IF ~IsNull(id) THEN url0 \o <<"/">> \o ToStr(id) ELSE url0
                  url == IF paramStr # <<>> THEN url1 \o <<"?">> \o paramStr ELSE url1
              IN  /\ sent' = <<[method |-> "post", url |-> url, data |-> Str(data)]>>
                  /\ ret' = Response
    /\ lastCall' = [op |-> "doIndex", arg |-> Undef, client |-> client]
    /\ UNCHANGED <<index, type, id, params>>

\* doIndex checking the identity fields before the client
doIndex_FieldsFirst(client) ==
    /\ pc = "ready"
    /\ pc' = "returned"
    /\ IF IsNull(index) \/ IsNull(type)
       THEN /\ ret' = Err("Index and Type must be set")
            /\ sent' = <<>>
       ELSE IF ~client
       THEN /\ ret' = Err("No Client Set")
            /\ sent' = <<>>
       ELSE IF IsNull(Prop(params, K_source))
       THEN /\ ret' = Err("No source document found")
            /\ sent' = <<>>
       ELSE \E order \in Orders(DOMAIN genClientParams) :
              LET url0 == <<"/">> \o ToStr(index) \o <<"/">> \o ToStr(type)
                  data == stringify(params[K_source])
                  paramStr == genParamStr(order)
                  url1 == IF ~IsNull(id) THEN url0 \o <<"/">> \o ToStr(id) ELSE url0
                  url == IF paramStr # <<>> THEN url1 \o <<"?">> \o paramStr ELSE url1
              IN  /\ IF IsNull(id)
                     THEN sent' = <<[method |-> "post", url |-> url, data |-> Str(data)]>>
                     ELSE sent' = <<[method |-> "put", url |-> url, data |-> Str(data)]>>
                  /\ ret' = Response
    /\ lastCall' = [op |-> "doIndex", arg |-> Undef, client |-> client]
    /\ UNCHANGED <<index, type, id, params>>

doIndex(client) ==
    /\ pc = "ready"
    /\ pc' = "returned"
    /\ IF ~client
       THEN /\ ret' = Err("No Client Set")
            /\ sent' = <<>>
       ELSE IF IsNull(index) \/ IsNull(type)
       THEN /\ ret' = Err("Index and Type must be set")
            /\ sent' = <<>>
       ELSE IF IsNull(Prop(params, K_source))
       THEN /\ ret' = Err("No source document found")
            /\ sent' = <<>>
       ELSE \E order \in Orders(DOMAIN genClientParams) :
              LET url0 == <<"/">> \o ToStr(index) \o <<"/">> \o ToStr(type)
                  data == stringify(params[K_source])
                  paramStr == genParamStr(order)
                  url1 == IF ~IsNull(id) THEN url0 \o <<"/">> \o ToStr(id) ELSE url0
                  url == IF paramStr # <<>> THEN url1 \o <<"?">> \o paramStr ELSE url1
              IN  /\ IF IsNull(id)
                     THEN sent' = <<[method |-> "post", url |-> url, data |-> Str(data)]>>
                     ELSE sent' = <<[method |-> "put", url |-> url, data |-> Str(data)]>>
                  /\ ret' = Response
    /\ lastCall' = [op |-> "doIndex", arg |-> Undef, client |-> client]
    /\ UNCHANGED <<index, type, id, params>>

\* doUpdate sending the document under the key source
doUpdate_SourceKey(client) ==
    /\ pc = "ready"
    /\ pc' = "returned"
    /\ IF ~client
       THEN /\ ret' = Err("No Client Set")
            /\ sent' = <<>>
       ELSE IF IsNull(index) \/ IsNull(type) \/ IsNull(id)
       THEN /\ ret' = Err("Index, Type, and ID must be set")
            /\ sent' = <<>>
       ELSE IF IsNull(Prop(params, K_script)) /\ IsNull(Prop(params, K_source))
       THEN /\ ret' = Err("Update script or document required")
            /\ sent' = <<>>
       ELSE \E order \in Orders(DOMAIN genClientParams) :
              LET url0 == <<"/">> \o ToStr(index) \o <<"/">> \o ToStr(type) \o <<"/">> \o ToStr(id) \o <<"/", "_", "u", "p", "d", "a", "t", "e">>
                  paramStr == genParamStr(order)
                  url == IF paramStr # <<>> THEN url0 \o <<"?">> \o paramStr ELSE url0
                  data0 == <<>>
                  data1 == IF ~IsNull(Prop(params, K_script)) THEN Append(data0, <<K_script, params[K_script]>>) ELSE data0
                  data2 == IF ~IsNull(Prop(params, K_lang)) THEN Append(data1, <<K_lang, params[K_lang]>>) ELSE data1
                  data3 == IF ~IsNull(Prop(params, K_params)) THEN Append(data2, <<K_params, params[K_params]>>) ELSE data2
                  data4 == IF ~IsNull(Prop(params, K_upsert)) THEN Append(data3, <<K_upsert, params[K_upsert]>>) ELSE data3
                  data == IF ~IsNull(Prop(params, K_source)) THEN Append(data4, <<K_source, params[K_source]>>) ELSE data4
              IN  /\ sent' = <<[method |-> "post", url |-> url, data |-> Str(stringify(Obj(data)))]>>
                  /\ ret' = Response
    /\ lastCall' = [op |-> "doUpdate", arg |-> Undef, client |-> client]
    /\ UNCHANGED <<index, type, id, params>>

\* doUpdate not requiring a script or a document
doUpdate_NoBodyCheck(client) ==
    /\ pc = "ready"
    /\ pc' = "returned"
    /\ IF ~client
       THEN /\ ret' = Err("No Client Set")
            /\ sent' = <<>>
       ELSE IF IsNull(index) \/ IsNull(type) \/ IsNull(id)
       THEN /\ ret' = Err("Index, Type, and ID must be set")
            /\ sent' = <<>>
       ELSE \E order \in Orders(DOMAIN genClientParams) :
              LET url0 == <<"/">> \o ToStr(index) \o <<"/">> \o ToStr(type) \o <<"/">> \o ToStr(id) \o <<"/", "_", "u", "p", "d", "a", "t", "e">>
                  paramStr == genParamStr(order)
                  url == IF paramStr # <<>> THEN url0 \o <<"?">> \o paramStr ELSE url0
                  data0 == <<>>
                  data1 == IF ~IsNull(Prop(params, K_script)) THEN Append(data0, <<K_script, params[K_script]>>) ELSE data0
                  data2 == IF ~IsNull(Prop(params, K_lang)) THEN Append(data1, <<K_lang, params[K_lang]>>) ELSE data1
                  data3 == IF ~IsNull(Prop(params, K_params)) THEN Append(data2, <<K_params, params[K_params]>>) ELSE data2
                  data4 == IF ~IsNull(Prop(params, K_upsert)) THEN Append(data3, <<K_upsert, params[K_upsert]>>) ELSE data3
                  data == IF ~IsNull(Prop(params, K_source)) THEN Append(data4, <<K_doc, params[K_source]>>) ELSE data4
              IN  /\ sent' = <<[method |-> "post", url |-> url, data |-> Str(stringify(Obj(data)))]>>
                  /\ ret' = Response
    /\ lastCall' = [op |-> "doUpdate", arg |-> Undef, client |-> client]
    /\ UNCHANGED <<index, type, id, params>>

doUpdate(client) ==
    /\ pc = "ready"
    /\ pc' = "returned"
    /\ IF ~client
       THEN /\ ret' = Err("No Client Set")
            /\ sent' = <<>>
       ELSE IF IsNull(index) \/ IsNull(type) \/ IsNull(id)
       THEN /\ ret' = Err("Index, Type, and ID must be set")
            /\ sent' = <<>>
       ELSE IF IsNull(Prop(params, K_script)) /\ IsNull(Prop(params, K_source))
       THEN /\ ret' = Err("Update script or document required")
            /\ sent' = <<>>
       ELSE \E order \in Orders(DOMAIN genClientParams) :
              LET url0 == <<"/">> \o ToStr(index) \o <<"/">> \o ToStr(type) \o <<"/">> \o ToStr(id) \o <<"/", "_", "u", "p", "d", "a", "t", "e">>
                  paramStr == genParamStr(order)
                  url == IF paramStr # <<>> THEN url0 \o <<"?">> \o paramStr ELSE url0
                  data0 == <<>>
                  data1 == IF ~IsNull(Prop(params, K_script)) THEN Append(data0, <<K_script, params[K_script]>>) ELSE data0
                  data2 == IF ~IsNull(Prop(params, K_lang)) THEN Append(data1, <<K_lang, params[K_lang]>>) ELSE data1
                  data3 == IF ~IsNull(Prop(params, K_params)) THEN Append(data2, <<K_params, params[K_params]>>) ELSE data2
                  data4 == IF ~IsNull(Prop(params, K_upsert)) THEN Append(data3, <<K_upsert, params[K_upsert]>>) ELSE data3
                  data == IF ~IsNull(Prop(params, K_source)) THEN Append(data4, <<K_doc, params[K_source]>>) ELSE data4
              IN  /\ sent' = <<[method |-> "post", url |-> url, data |-> Str(stringify(Obj(data)))]>>
                  /\ ret' = Response
    /\ lastCall' = [op |-> "doUpdate", arg |-> Undef, client |-> client]
    /\ UNCHANGED <<index, type, id, params>>

\* doDelete not requiring id
doDelete_NoIdCheck(client) ==
    /\ pc = "ready"
    /\ pc' = "returned"
    /\ IF ~client
       THEN /\ ret' = Err("No Client Set")
            /\ sent' = <<>>
       ELSE IF IsNull(index) \/ IsNull(type)
       THEN /\ ret' = Err("Index, Type, and ID must be set")
            /\ sent' = <<>>
       ELSE \E order \in Orders(DOMAIN genClientParams) :
              LET url0 == <<"/">> \o ToStr(index) \o <<"/">> \o ToStr(type) \o <<"/">> \o ToStr(id)
                  data == <<>>
                  paramStr == genParamStr(order)
                  url == IF paramStr # <<>> THEN url0 \o <<"?">> \o paramStr ELSE url0
              IN  /\ sent' = <<[method |-> "del", url |-> url, data |-> Str(data)]>>
                  /\ ret' = Response
    /\ lastCall' = [op |-> "doDelete", arg |-> Undef, client |-> client]
    /\ UNCHANGED <<index, type, id, params>>

\* doDelete leaving the query string out
doDelete_NoQuery(client) ==
    /\ pc = "ready"
    /\ pc' = "returned"
    /\ IF ~client
       THEN /\ ret' = Err("No Client Set")
            /\ sent' = <<>>
       ELSE IF IsNull(index) \/ IsNull(type) \/ IsNull(id)
       THEN /\ ret' = Err("Index, Type, and ID must be set")
            /\ sent' = <<>>
       ELSE \E order \in Orders(DOMAIN genClientParams) :
              LET url0 == <<"/">> \o ToStr(index) \o <<"/">> \o ToStr(type) \o <<"/">> \o ToStr(id)
                  data == <<>>
                  paramStr == genParamStr(order)
                  url == url0
              IN  /\ sent' = <<[method |-> "del", url |-> url, data |-> Str(data)]>>
                  /\ ret' = Response
    /\ lastCall' = [op |-> "doDelete", arg |-> Undef, client |-> client]
    /\ UNCHANGED <<index, type, id, params>>

doDelete(client) ==
    /\ pc = "ready"
    /\ pc' = "returned"
    /\ IF ~client
       THEN /\ ret' = Err("No Client Set")
            /\ sent' = <<>>
       ELSE IF IsNull(index) \/ IsNull(type) \/ IsNull(id)
       THEN /\ ret' = Err("Index, Type, and ID must be set")
            /\ sent' = <<>>
       ELSE \E order \in Orders(DOMAIN genClientParams) :
              LET url0 == <<"/">> \o ToStr(index) \o <<"/">> \o ToStr(type) \o <<"/">> \o ToStr(id)
                  data == <<>>
                  paramStr == genParamStr(order)
                  url == IF paramStr # <<>> THEN url0 \o <<"?">> \o paramStr ELSE url0
              IN  /\ sent' = <<[method |-> "del", url |-> url, data |-> Str(data)]>>
                  /\ ret' = Response
    /\ lastCall' = [op |-> "doDelete", arg |-> Undef, client |-> client]
    /\ UNCHANGED <<index, type, id, params>>

\* ---------------------------------------------------------------- specification
Next ==
    \/ \E a \in IndexArgs : index_(a)
    \/ \E a \in TypeArgs : type_(a)
    \/ \E a \in IdArgs : id_(a)
    \/ \E a \in RoutingArgs : routingCall(a)
    \/ \E a \in ParentArgs : parentCall(a)
    \/ \E a \in TimestampArgs : timestampCall(a)
    \/ \E a \in TtlArgs : ttlCall(a)
    \/ \E a \in TimeoutArgs : timeoutCall(a)
    \/ \E a \in RefreshArgs : refreshCall(a)
    \/ \E a \in VersionArgs : versionCall(a)
    \/ \E a \in VersionTypeArgs : versionTypeCall(a)
    \/ \E a \in PercolateArgs : percolateCall(a)
    \/ \E a \in OpTypeArgs : opTypeCall(a)
    \/ \E a \in ReplicationArgs : replicationCall(a)
    \/ \E a \in ConsistencyArgs : consistencyCall(a)
    \/ \E a \in PreferenceArgs : preferenceCall(a)
    \/ \E a \in RealtimeArgs : realtimeCall(a)
    \/ \E a \in FieldsArgs : fieldsCall(a)
    \/ \E a \in ScriptArgs : scriptCall(a)
    \/ \E a \in LangArgs : langCall(a)
    \/ \E a \in ParamsArgs : params_Call(a)
    \/ \E a \in RetryArgs : retryOnConflictCall(a)
    \/ \E a \in UpsertArgs : upsertCall(a)
    \/ \E a \in SourceArgs : sourceCall(a)
    \/ \E client \in BOOLEAN : doGet(client)
    \/ \E client \in BOOLEAN : doIndex(client)
    \/ \E client \in BOOLEAN : doUpdate(client)
    \/ \E client \in BOOLEAN : doDelete(client)
    \/ Continue

Spec == Init /\ [][Next]_vars

\* the calls that set no option of the query string: every accessor without
\* argument, the identity accessors, the accessors of the options that go in
\* the body, and the dispatch operations
NextNoQuery ==
    \/ \E a \in IndexArgs : index_(a)
    \/ \E a \in TypeArgs : type_(a)
    \/ \E a \in IdArgs : id_(a)
    \/ \E a \in ReadArgs : routingCall(a)
    \/ \E a \in ReadArgs : parentCall(a)
    \/ \E a \in ReadArgs : timestampCall(a)
    \/ \E a \in ReadArgs : ttlCall(a)
    \/ \E a \in ReadArgs : timeoutCall(a)
    \/ \E a \in ReadArgs : refreshCall(a)
    \/ \E a \in ReadArgs : versionCall(a)
    \/ \E a \in ReadArgs : versionTypeCall(a)
    \/ \E a \in ReadArgs : percolateCall(a)
    \/ \E a \in ReadArgs : opTypeCall(a)
    \/ \E a \in ReadArgs : replicationCall(a)
    \/ \E a \in ReadArgs : consistencyCall(a)
    \/ \E a \in ReadArgs : preferenceCall(a)
    \/ \E a \in ReadArgs : realtimeCall(a)
    \/ \E a \in ReadArgs : fieldsCall(a)
    \/ \E a \in ScriptArgs : scriptCall(a)
    \/ \E a \in LangArgs : langCall(a)
    \/ \E a \in ParamsArgs : params_Call(a)
    \/ \E a \in ReadArgs : retryOnConflictCall(a)
    \/ \E a \in UpsertArgs : upsertCall(a)
    \/ \E a \in SourceArgs : sourceCall(a)
    \/ \E client \in BOOLEAN : doGet(client)
    \/ \E client \in BOOLEAN : doIndex(client)
    \/ \E client \in BOOLEAN : doUpdate(client)
    \/ \E client \in BOOLEAN : doDelete(client)
    \/ Continue

SpecNoQuery == Init /\ [][NextNoQuery]_vars

\* ---------------------------------------------------------------- properties
\* the character c occurs in the string s
Has(s, c) == \E i \in 1..Len(s) : s[i] = c

\* the option keys that are set and go in the query string
QueryKeys == (DOMAIN params) \ BodyOnly

\* /index/type and, when withId, /id
Path(withId) == <<"/">> \o ToStr(index) \o <<"/">> \o ToStr(type) \o (IF withId THEN <<"/">> \o ToStr(id) ELSE <<>>)

\* url is path, followed by ? and the query string when an option that goes
\* in the query string is set
PathAndQuery(url, path) ==
    IF QueryKeys = {}
    THEN url = path
    ELSE \E order \in Orders(QueryKeys) : url = path \o <<"?">> \o genParamStr(order)

\* the last call is the dispatch operation op and has returned or thrown
Dispatched(op) == pc = "returned" /\ lastCall.op = op

\* C1: store (doIndex) with a client, index, type and source set issues one
\* request: a POST to /index/type when id is unset, a PUT to /index/type/id
\* when id is set; its body is the JSON of source and the query string follows
\* a ? only when it is not empty.
C1_StoreRequest ==
    (Dispatched("doIndex") /\ lastCall.client /\ ~IsNull(index) /\ ~IsNull(type) /\ K_source \in DOMAIN params) =>
        /\ Len(sent) = 1
        /\ sent[1].method = (IF IsNull(id) THEN "post" ELSE "put")
        /\ sent[1].data = Str(stringify(params[K_source]))
        /\ params[K_source] = Obj(<<<<<<"f">>, Num(1)>>>>) => sent[1].data = Str(<<"{", "\"", "f", "\"", ":", "1", "}">>)
        /\ PathAndQuery(sent[1].url, Path(~IsNull(id)))
        /\ Has(sent[1].url, "?") <=> QueryKeys # {}
        /\ (index = Str(<<"i">>) /\ type = Str(<<"t">>) /\ QueryKeys = {}) =>
               sent[1].url = (IF IsNull(id) THEN <<"/", "i", "/", "t">> ELSE <<"/", "i", "/", "t", "/", "5">>)

\* a PUT to /index/type/id?query has been issued
C1_Witness ==
    /\ Dispatched("doIndex")
    /\ Len(sent) = 1
    /\ sent[1].method = "put"
    /\ Has(sent[1].url, "?")

\* C2: doGet, doUpdate and doDelete with a client but without id throw the
\* identity error and call no method of the client, whatever options are set.
C2_IdRequired ==
    ((Dispatched("doGet") \/ Dispatched("doUpdate") \/ Dispatched("doDelete")) /\ lastCall.client /\ IsNull(id)) =>
        /\ ret = Err("Index, Type, and ID must be set")
        /\ sent = <<>>

\* doDelete was called with index, type and an option set, but no id
C2_Witness ==
    /\ Dispatched("doDelete")
    /\ lastCall.client
    /\ IsNull(id)
    /\ ~IsNull(index)
    /\ ~IsNull(type)
    /\ DOMAIN params # {}

\* C3: each dispatch operation called without a client throws "No Client Set"
\* and calls nothing, whether or not identity fields and body are set; with a
\* client no operation throws that error.
C3_ClientRequired ==
    (Dispatched("doGet") \/ Dispatched("doIndex") \/ Dispatched("doUpdate") \/ Dispatched("doDelete")) =>
        /\ ~lastCall.client => (ret = Err("No Client Set") /\ sent = <<>>)
        /\ lastCall.client => ret # Err("No Client Set")

\* doIndex was called without a client and without index
C3_Witness ==
    /\ Dispatched("doIndex")
    /\ ~lastCall.client
    /\ IsNull(index)
    /\ ret = Err("No Client Set")

\* the accessors of the enumerated options
EnumOps == {"versionType", "opType", "replication", "consistency"}

\* the values an enumerated option allows
Allowed(op) == CASE op = "versionType" -> {<<"i", "n", "t", "e", "r", "n", "a", "l">>, <<"e", "x", "t", "e", "r", "n", "a", "l">>}
                 [] op = "opType" -> {<<"i", "n", "d", "e", "x">>, <<"c", "r", "e", "a", "t", "e">>}
                 [] op = "replication" -> {<<"a", "s", "y", "n", "c">>, <<"s", "y", "n", "c">>, <<"d", "e", "f", "a", "u", "l", "t">>}
                 [] op = "consistency" -> {<<"d", "e", "f", "a", "u", "l", "t">>, <<"o", "n", "e">>, <<"q", "u", "o", "r", "u", "m">>, <<"a", "l", "l">>}

\* this step is a call of the accessor of an enumerated option
EnumCalled == pc = "ready" /\ pc' = "returned" /\ lastCall'.op \in EnumOps

AccessorOps == {"routing", "parent", "timestamp", "ttl", "timeout", "refresh", "version", "versionType",
                "percolate", "opType", "replication", "consistency", "preference", "realtime", "fields",
                "script", "lang", "params", "retryOnConflict", "upsert", "source"}

\* what the accessor op returns when called now without argument
ReadBack(op) == CASE op = "routing" -> routing(params, Undef).ret
                  [] op = "parent" -> parent(params, Undef).ret
                  [] op = "timestamp" -> timestamp(params, Undef).ret
                  [] op = "ttl" -> ttl(params, Undef).ret
                  [] op = "timeout" -> timeout(params, Undef).ret
                  [] op = "refresh" -> refresh(params, Undef).ret
                  [] op = "version" -> version(params, Undef).ret
                  [] op = "versionType" -> versionType(params, Undef).ret
                  [] op = "percolate" -> percolate(params, Undef).ret
                  [] op = "opType" -> opType(params, Undef).ret
                  [] op = "replication" -> replication(params, Undef).ret
                  [] op = "consistency" -> consistency(params, Undef).ret
                  [] op = "preference" -> preference(params, Undef).ret
                  [] op = "realtime" -> realtime(params, Undef).ret
                  [] op = "fields" -> fields(params, Undef).ret
                  [] op = "script" -> script(params, Undef).ret
                  [] op = "lang" -> lang(params, Undef).ret
                  [] op = "params" -> params_(params, Undef).ret
                  [] op = "retryOnConflict" -> retryOnConflict(params, Undef).ret
                  [] op = "upsert" -> upsert(params, Undef).ret
                  [] op = "source" -> source(params, Undef).ret

\* the last call gave an accessor a non-null value, which it accepted
AcceptedSet ==
    /\ pc = "returned"
    /\ lastCall.op \in AccessorOps
    /\ ~IsNull(lastCall.arg)
    /\ ret = This
    /\ lastCall.op \in EnumOps => (isString(lastCall.arg) /\ toLowerCase(lastCall.arg.v) \in Allowed(lastCall.op))

\* C5 as stated: after an accessor accepted v, calling it without argument
\* returns exactly v.
C5_Original == AcceptedSet => ReadBack(lastCall.op) = lastCall.arg

\* C5: after an accessor accepted v, calling it without argument returns
\* exactly v, except that an enumerated option returns v in lower case and
\* that fields given a single string returns the stored sequence, which ends
\* with v.
C5_RoundTrip ==
    AcceptedSet =>
        IF lastCall.op \in EnumOps
        THEN ReadBack(lastCall.op) = Str(toLowerCase(lastCall.arg.v))
        ELSE IF lastCall.op = "fields" /\ isString(lastCall.arg)
        THEN /\ isArray(ReadBack("fields"))
             /\ Len(ReadBack("fields").v) > 0
             /\ ReadBack("fields").v[Len(ReadBack("fields").v)] = lastCall.arg
        ELSE ReadBack(lastCall.op) = lastCall.arg

\* timeout accepted a value while another option was set
C5_Witness ==
    /\ AcceptedSet
    /\ lastCall.op = "timeout"
    /\ Cardinality(DOMAIN params) = 2

\* the object doUpdate is to send: script, lang, params and upsert when set,
\* and source, when set, as doc
UpdateBody ==
    LET keys == SelectSeq(<<K_script, K_lang, K_params, K_upsert>>, LAMBDA key : key \in DOMAIN params)
        doc == IF K_source \in DOMAIN params THEN <<<<K_doc, params[K_source]>>>> ELSE <<>>
    IN  Obj([i \in 1..Len(keys) |-> <<keys[i], params[keys[i]]>>] \o doc)

\* C6: partial-update (doUpdate) with a client, index, type, id and script or
\* source set issues one POST to /index/type/id/_update, followed by ? and the
\* query string when it is not empty; its body is the JSON of the object
\* holding exactly the set keys among script, lang, params and upsert, and doc
\* when source is set; with only script set the body has the one key script.
C6_UpdateRequest ==
    (Dispatched("doUpdate") /\ lastCall.client /\ ~IsNull(index) /\ ~IsNull(type) /\ ~IsNull(id)
       /\ (K_script \in DOMAIN params \/ K_source \in DOMAIN params)) =>
        /\ Len(sent) = 1
        /\ sent[1].method = "post"
        /\ PathAndQuery(sent[1].url, Path(TRUE) \o <<"/", "_", "u", "p", "d", "a", "t", "e">>)
        /\ sent[1].data = Str(stringify(UpdateBody))
        /\ (DOMAIN params = {K_script} /\ params[K_script] = Str(<<"c", "t", "x", ".", "_", "s", "o", "u", "r", "c", "e", ".", "f", "+", "=", "1">>)) =>
               /\ sent[1].data = Str(<<"{", "\"", "s", "c", "r", "i", "p", "t", "\"", ":", "\"", "c", "t", "x", ".", "_", "s", "o", "u", "r", "c", "e", ".", "f", "+", "=", "1", "\"", "}">>)
               /\ (index = Str(<<"i">>) /\ type = Str(<<"t">>) /\ id = Str(<<"5">>)) => sent[1].url = <<"/", "i", "/", "t", "/", "5", "/", "_", "u", "p", "d", "a", "t", "e">>

\* an update with both a script and a document has been posted
C6_Witness ==
    /\ Dispatched("doUpdate")
    /\ Len(sent) = 1
    /\ DOMAIN params = {K_script, K_source}

\* the first position of the character c in the string s
Pos(s, c) == CHOOSE i \in 1..Len(s) : s[i] = c /\ \A j \in 1..(i - 1) : s[j] # c

\* s up to the first c, and s after it
Before(s, c) == IF Has(s, c) THEN SubSeq(s, 1, Pos(s, c) - 1) ELSE s
After(s, c) == IF Has(s, c) THEN SubSeq(s, Pos(s, c) + 1, Len(s)) ELSE <<>>

\* the pieces of s between the occurrences of c
RECURSIVE Split(_, _)
Split(s, c) == IF Has(s, c) THEN <<Before(s, c)>> \o Split(After(s, c), c) ELSE <<s>>

\* the keys of the key=value pairs after the ? of url
KeysInUrl(url) ==
    IF Has(url, "?")
    THEN LET pairs == Split(After(url, "?"), "&") IN {Before(pairs[i], "=") : i \in 1..Len(pairs)}
    ELSE {}

\* C7: the query string of the URL doIndex, doUpdate and doDelete request, and
\* the parameter map doGet hands to the client, have none of the keys source,
\* script, lang, params, upsert, whether or not these are set.
C7_NoBodyKeysInQuery ==
    (pc = "returned" /\ Len(sent) = 1) =>
        IF sent[1].method = "get"
        THEN (DOMAIN sent[1].data.v) \cap BodyOnly = {}
        ELSE KeysInUrl(sent[1].url) \cap BodyOnly = {}

\* an update was posted with a script and with a query string
C7_Witness ==
    /\ Dispatched("doUpdate")
    /\ Len(sent) = 1
    /\ K_script \in DOMAIN params
    /\ KeysInUrl(sent[1].url) # {}

\* C8: fields given a single string appends it to the stored sequence ("a"
\* then "b" on a new builder store <<"a", "b">>); fields given a sequence
\* stores exactly that sequence, whatever was stored.
C8_FieldsAppendOrReplace ==
    [][(pc = "ready" /\ pc' = "returned" /\ lastCall'.op = "fields") =>
           LET old == IF K_fields \in DOMAIN params THEN params[K_fields].v ELSE <<>>
           IN  /\ isString(lastCall'.arg) => params'[K_fields] = Arr(Append(old, lastCall'.arg))
               /\ isArray(lastCall'.arg) => params'[K_fields] = lastCall'.arg
               /\ fields(fields(EmptyMap, Str(<<"a">>)).params, Str(<<"b">>)).params[K_fields] = Arr(<<Str(<<"a">>), Str(<<"b">>)>>)]_vars

\* "b" was appended to the sequence holding "a"
C8_Witness ==
    /\ pc = "returned"
    /\ lastCall = [op |-> "fields", arg |-> Str(<<"b">>)]
    /\ params[K_fields] = Arr(<<Str(<<"a">>), Str(<<"b">>)>>)

\* doDelete was called with a client, index, type and id
Removed == Dispatched("doDelete") /\ lastCall.client /\ ~IsNull(index) /\ ~IsNull(type) /\ ~IsNull(id)

\* C9 as stated: remove issues one DELETE whose URL is /index/type/id and
\* whose body is empty, whatever options are set.
C9_Original ==
    Removed => (Len(sent) = 1 /\ sent[1].method = "del" /\ sent[1].url = Path(TRUE) /\ sent[1].data = Str(<<>>))

\* C9: remove (doDelete) with a client, index, type and id set issues one
\* DELETE whose URL is /index/type/id, followed by ? and the query string when
\* an option that goes in the query string is set, and whose body is empty.
C9_RemoveRequest ==
    Removed => (Len(sent) = 1 /\ sent[1].method = "del" /\ PathAndQuery(sent[1].url, Path(TRUE)) /\ sent[1].data = Str(<<>>))

\* a DELETE was issued while an option of the query string was set
C9_Witness ==
    /\ Removed
    /\ Len(sent) = 1
    /\ QueryKeys # {}

Calls(op) == pc = "ready" /\ pc' = "returned" /\ lastCall'.op = op

\* index, type and id are set
IdentitySet == ~IsNull(index) /\ ~IsNull(type) /\ ~IsNull(id)

\* C11: doIndex without source, and doUpdate with neither script nor source,
\* called with a client and the identity fields set, throw before calling the
\* client and change nothing: no request is made, and the identity fields and
\* the option map are as before the call.
C11_BodyRequired ==
    [][(/\ lastCall'.op \in {"doIndex", "doUpdate"}
        /\ \/ Calls("doIndex") /\ K_source \notin DOMAIN params
           \/ Calls("doUpdate") /\ K_script \notin DOMAIN params /\ K_source \notin DOMAIN params
        /\ lastCall'.client
        /\ IdentitySet) =>
           /\ ret' = (IF lastCall'.op = "doIndex"
                      THEN Err("No source document found")
                      ELSE Err("Update script or document required"))
           /\ sent' = <<>>
           /\ params' = params
           /\ index' = index /\ type' = type /\ id' = id]_vars

\* doUpdate was refused for want of a script or document while an option was set
C11_Witness ==
    /\ Dispatched("doUpdate")
    /\ lastCall.client
    /\ IdentitySet
    /\ DOMAIN params # {}
    /\ K_script \notin DOMAIN params
    /\ K_source \notin DOMAIN params
    /\ ret = Err("Update script or document required")

\* doGet was called with a client, index, type and id
Fetched == Dispatched("doGet") /\ lastCall.client /\ IdentitySet

\* C12 as stated: fetch issues one GET to /index/type/id and hands over one
\* entry per set option of the query string, each with its stored value.
C12_Original ==
    Fetched =>
        /\ Len(sent) = 1
        /\ sent[1].method = "get"
        /\ sent[1].url = Path(TRUE)
        /\ sent[1].data = [k |-> "map", v |-> [key \in QueryKeys |-> params[key]]]

\* C12: fetch (doGet) with a client, index, type and id set issues one GET to
\* /index/type/id without query suffix and hands the client a map, not a
\* string, with one entry per set option of the query string; the entry has
\* the stored value, except that a stored sequence (fields) is handed over as
\* the string of its elements separated by commas.
C12_FetchRequest ==
    Fetched =>
        /\ Len(sent) = 1
        /\ sent[1].method = "get"
        /\ sent[1].url = Path(TRUE)
        /\ ~Has(sent[1].url, "?")
        /\ sent[1].data.k = "map"
        /\ DOMAIN sent[1].data.v = QueryKeys
        /\ \A key \in QueryKeys :
               IF isArray(params[key])
               THEN sent[1].data.v[key] = Str(JoinWith([i \in 1..Len(params[key].v) |-> params[key].v[i].v], <<",">>))
               ELSE sent[1].data.v[key] = params[key]
        /\ (K_fields \in DOMAIN params /\ params[K_fields] = Arr(<<Str(<<"a">>), Str(<<"b">>)>>)) =>
               sent[1].data.v[K_fields] = Str(<<"a", ",", "b">>)

\* a GET was issued while fields held two names and another option was set
C12_Witness ==
    /\ Fetched
    /\ Len(sent) = 1
    /\ K_fields \in DOMAIN params
    /\ Len(params[K_fields].v) = 2
    /\ Cardinality(QueryKeys) = 2

\* the call of this step gives an accessor a value of the wrong type
FailsValidation ==
    \/ Calls("fields") /\ ~IsNull(lastCall'.arg) /\ ~isString(lastCall'.arg) /\ ~isArray(lastCall'.arg)
    \/ (Calls("params") \/ Calls("upsert") \/ Calls("source")) /\ ~IsNull(lastCall'.arg) /\ ~isObject(lastCall'.arg)

\* C13: an accessor call that fails type validation throws a TypeError and
\* leaves the option map as it was, the set of its keys included.
C13_ValidationNoEffect ==
    [][FailsValidation => (ret'.k = "TypeError" /\ params' = params)]_vars

\* C14: an identity field or option key that is set stays set through every
\* accessor and dispatch call, a null or absent argument being a read; and a
\* doIndex that succeeds while id is set uses PUT.
C14_SetStaysSet ==
    [][/\ ~IsNull(index) => ~IsNull(index')
       /\ ~IsNull(type) => ~IsNull(type')
       /\ ~IsNull(id) => ~IsNull(id')
       /\ \A key \in DOMAIN params : key \in DOMAIN params' /\ ~IsNull(params'[key])
       /\ (pc' = "returned" /\ IsNull(lastCall'.arg) /\ lastCall'.op \in {"index", "type", "id"}) =>
              (index' = index /\ type' = type /\ id' = id /\ ret' # This)
       /\ (Calls("doIndex") /\ ~IsNull(id) /\ Len(sent') = 1) => sent'[1].method = "put"]_vars

\* id was called with null while id was set, and returned it
C14_Witness ==
    /\ pc = "returned"
    /\ lastCall = [op |-> "id", arg |-> Null]
    /\ ~IsNull(id)
    /\ ret = id

====
